---- MODULE Spec2Model ----
(***************************************************************************)
(* The chunked transcription pipeline of gemini-Transcription-Master:      *)
(* App.processAudio / stopProcessing / handleFileChange (src/unnamed/      *)
(* part_000), transcribeChunk / transcribeWithRetry (src/services/         *)
(* geminiService.ts), saveProgress / loadProgress / clearProgress and      *)
(* splitAudioBuffer (src/utils/progressStorage.ts), parseGeminiError /     *)
(* parseAudioError (src/utils/errorHandling.ts).                           *)
(*                                                                         *)
(* One action is one JavaScript task: an event handler, or the code of an  *)
(* async function between two awaits.  processAudio awaits decodeAudio and *)
(* transcribeChunk; transcribeWithRetry touches no shared state between    *)
(* its attempts, so a whole transcribeChunk call is one pending await      *)
(* whose completion evaluates the retry loop over an oracle that lists     *)
(* what the remote service does at each attempt.                           *)
(*                                                                         *)
(* React state: setX(value) and setX(updater) made inside one task are     *)
(* applied when React processes the update queue.  An updater function     *)
(* runs either at once inside setTranscripts (React's eager computation,   *)
(* possible only when nothing else is queued) or at the next render; both  *)
(* orders are modelled.  A user event is handled after React has rendered  *)
(* (pending = << >>); its handler is the closure of that render.           *)
(***************************************************************************)
EXTENDS Integers, Sequences, FiniteSets, TLC

VARIABLES
    file,          \* useState file: the selected file, NoFile when none
    apiKey,        \* useState apiKey reduced to "is non-empty"
    status,        \* useState status: AppStatus
    transcripts,   \* useState transcripts: state as last computed by React
    pending,       \* queued setTranscripts updaters not yet run
    errorMsg,      \* useState errorMsg
    abort,         \* abortControllerRef.current
    store,         \* localStorage[STORAGE_KEY]: << >> or <<record>>
    storeLog,      \* history: the localStorage writes made by the last task
    now,           \* Date.now()
    runs,          \* one entry per processAudio invocation
    nrun,          \* number of processAudio invocations so far
    rt,            \* harness around a pure function: its input, then its output
    storeFull      \* localStorage.setItem throws QuotaExceededError

vars == <<file, apiKey, status, transcripts, pending, errorMsg, abort,
          store, storeLog, now, runs, nrun, rt, storeFull>>

pipeVars == <<file, apiKey, status, transcripts, pending, errorMsg, abort,
              store, storeLog, now, runs, nrun, storeFull>>

-----------------------------------------------------------------------------
(* Bounds of the model *)

MaxRuns == 2          \* processAudio invocations in one behaviour
MaxTicks == 2         \* clock advances in one behaviour
MaxRetriesBound == 3  \* largest maxRetries option given to the retry harness
MaxQuotaRuns == 1     \* processAudio invocations on a store that runs full
MaxFrames == 12       \* longest buffer given to the splitAudioBuffer harness
MaxRate == 3          \* largest sample rate given to the splitAudioBuffer harness
MaxChunkSeconds == 3  \* largest chunk duration given to the splitAudioBuffer harness
MaxComponents == 4    \* most components of a time string given to the parser harness
MaxWavFrames == 47    \* longest buffer given to the audioBufferToWav harness
MaxChannels == 2      \* most channels given to the audioBufferToWav harness
MaxPatterns == 5      \* sample patterns given to the audioBufferToWav harness

(* Program constants *)

CHUNK_DURATION == 300
MAX_AGE_MS == 86400000
DefaultMaxRetries == 3
DefaultRetryDelay == 1000

TickMs == MAX_AGE_MS   \* the clock advances in steps of 24 hours

-----------------------------------------------------------------------------
(* Files and their decoded audio *)

NoFile == [name |-> "", size |-> 0]

Files == { [name |-> "a.mp3", size |-> 1000], [name |-> "b.mp3", size |-> 1000] }

\* decodeAudio's result for a file: frame count and sample rate
AudioOf(f) ==
    IF f.name = "a.mp3" THEN [length |-> 500, sampleRate |-> 1]
                        ELSE [length |-> 250, sampleRate |-> 1]

Min(a, b) == IF a < b THEN a ELSE b

RECURSIVE SplitFrom(_, _, _)
SplitFrom(startFrame, chunkLengthFrames, length) ==
    IF startFrame < length
    THEN LET endFrame == Min(startFrame + chunkLengthFrames, length)
         IN  <<[start |-> startFrame, frameCount |-> endFrame - startFrame]>>
             \o SplitFrom(startFrame + chunkLengthFrames, chunkLengthFrames, length)
    ELSE << >>

\* splitAudioBuffer that drops a last chunk shorter than the others
splitAudioBufferWholeOnly(audioBuffer, chunkDurationSeconds) ==
    LET chunkLengthFrames == chunkDurationSeconds * audioBuffer.sampleRate
    IN  SplitFrom(0, chunkLengthFrames,
                  audioBuffer.length - (audioBuffer.length % chunkLengthFrames))

\* splitAudioBuffer: the chunks as (start frame, frame count)
splitAudioBuffer(audioBuffer, chunkDurationSeconds) ==
    SplitFrom(0, chunkDurationSeconds * audioBuffer.sampleRate, audioBuffer.length)

-----------------------------------------------------------------------------
(* audioBufferToWav *)

\* A sample is kept in halves: h stands for the float h / 2.
\* `| 0` truncates toward zero.
TruncDiv(a, b) == IF a >= 0 THEN a \div b ELSE -((-a) \div b)

\* lines 170-171: clamp to [-1, 1], scale to a 16-bit signed integer
Quantize(h) ==
    LET sample == IF h < -2 THEN -2 ELSE IF h > 2 THEN 2 ELSE h
    IN  IF 1 + sample < 0                       \* 0.5 + sample < 0
        THEN TruncDiv(sample * 32768, 2)
        ELSE TruncDiv(sample * 32767, 2)

\* `pos` after the header writes of lines 148-162
HeaderPos == 4 + 4 + 4 + 4 + 4 + 2 + 2 + 4 + 4 + 2 + 2 + 4 + 4

\* audioBufferToWav: the fields of the header that depend on the buffer and
\* the 16-bit samples of the data part; samples[s + 1] is the sample at
\* byte offset 44 + 2 * s.  The loop of lines 168-176 runs while
\* pos < buffer.length with pos as the header left it, reads
\* channels[i][pos] and writes at 44 + offset, offset starting at 0; the
\* bytes it does not write stay 0.
audioBufferToWav(buffer) ==
    LET numOfChan == buffer.numberOfChannels
        length == buffer.length * numOfChan * 2 + 44
    IN  [byteLength |-> length,
         riffSize |-> length - 8,
         numOfChan |-> numOfChan,
         sampleRate |-> buffer.sampleRate,
         dataSize |-> length - (HeaderPos - 4) - 4,  \* pos is 40 at that write
         samples |-> [s \in 1..(buffer.length * numOfChan) |->
                        LET i == (s - 1) % numOfChan
                            pos == HeaderPos + ((s - 1) \div numOfChan)
                        IN  IF pos < buffer.length
                            THEN Quantize(buffer.channels[i + 1][pos + 1])
                            ELSE 0]]

-----------------------------------------------------------------------------
(* Errors and their classification *)

\* An error message: its text, and which of the substrings parseGeminiError
\* looks for it includes.
Err(text, has) == [text |-> text, has |-> has]
NoErr == Err("", {})

UserMsg(text, detail) == [text |-> text, detail |-> detail]
NoMsg == UserMsg("null", "")

\* an AppError that is retryable whatever its class
AppErrorAlwaysRetryable(type, message, userMessage, retryable) ==
    [type |-> type, message |-> message, userMessage |-> userMessage,
     retryable |-> TRUE]

AppError(type, message, userMessage, retryable) ==
    [type |-> type, message |-> message, userMessage |-> userMessage,
     retryable |-> retryable]

\* parseGeminiError that tests the quota rule before the API key rule
parseGeminiErrorQuotaFirst(error) ==
    IF "quota" \in error.has \/ "rate limit" \in error.has
    THEN AppError("QUOTA_EXCEEDED", error.text,
                  UserMsg("API quota reached", ""), TRUE)
    ELSE IF "API key" \in error.has \/ "authentication" \in error.has
    THEN AppError("INVALID_API_KEY", error.text,
                  UserMsg("API key invalid or expired", ""), FALSE)
    ELSE IF "network" \in error.has \/ "fetch" \in error.has
    THEN AppError("NETWORK_ERROR", error.text,
                  UserMsg("network problem", ""), TRUE)
    ELSE AppError("API_ERROR", error.text,
                  UserMsg("API request failed: ", error.text), TRUE)

parseGeminiError(error) ==
    IF "API key" \in error.has \/ "authentication" \in error.has
    THEN AppError("INVALID_API_KEY", error.text,
                  UserMsg("API key invalid or expired", ""), FALSE)
    ELSE IF "quota" \in error.has \/ "rate limit" \in error.has
    THEN AppError("QUOTA_EXCEEDED", error.text,
                  UserMsg("API quota reached", ""), TRUE)
    ELSE IF "network" \in error.has \/ "fetch" \in error.has
    THEN AppError("NETWORK_ERROR", error.text,
                  UserMsg("network problem", ""), TRUE)
    ELSE AppError("API_ERROR", error.text,
                  UserMsg("API request failed: ", error.text), TRUE)

\* parseAudioError that classifies like parseGeminiError
parseAudioErrorAsApi(error) ==
    AppError("API_ERROR", error.text, UserMsg("API request failed: ", error.text), TRUE)

parseAudioError(error) ==
    AppError("AUDIO_DECODE_ERROR", error.text,
             UserMsg("audio format unsupported or corrupt", ""), FALSE)

-----------------------------------------------------------------------------
(* Transcript segments *)

\* A timestamp string is kept as the list of its colon-separated components.
\* Number(component): a number, or NaN.
NaN == [nan |-> TRUE, v |-> 0]
Num(n) == [nan |-> FALSE, v |-> n]

Number(s) ==
    CASE s = "00" -> Num(0)
      [] s = "02" -> Num(2)
      [] s = "03" -> Num(3)
      [] s = "05" -> Num(5)
      [] s = "12" -> Num(12)
      [] s = "07" -> Num(7)
      [] s = "1"  -> Num(1)
      [] s = "30" -> Num(30)
      [] s = ""   -> Num(0)
      [] OTHER    -> NaN

\* element k of the array split(':').map(Number); undefined (isNaN) beyond it
Component(ts, k) == IF k <= Len(ts) THEN Number(ts[k]) ELSE NaN

\* parseTimeStringToSeconds that takes a component that is no number for 0
parseTimeStringLenient(timeStr) ==
    LET parts == [k \in 1..Len(timeStr) |->
                     IF Number(timeStr[k]).nan THEN 0 ELSE Number(timeStr[k]).v]
    IN  [threw |-> FALSE,
         value |-> IF Len(parts) = 3 THEN parts[1] * 3600 + parts[2] * 60 + parts[3]
                   ELSE IF Len(parts) = 2 THEN parts[1] * 60 + parts[2]
                   ELSE IF Len(parts) = 1 THEN parts[1]
                   ELSE 0]

\* parseTimeStringToSeconds (progressStorage.ts 227-244).  The argument is
\* the list of the trimmed string's colon-separated components; << >> stands
\* for a value that is no string, on which trim() throws into the catch.
parseTimeStringToSeconds(timeStr) ==
    IF timeStr = << >>
    THEN [threw |-> FALSE, value |-> 0]
    ELSE LET parts == [k \in 1..Len(timeStr) |-> Number(timeStr[k])]
         IN  [threw |-> FALSE,
              value |->
                 IF \E k \in 1..Len(parts) : parts[k].nan THEN 0
                 ELSE IF Len(parts) = 3
                      THEN parts[1].v * 3600 + parts[2].v * 60 + parts[3].v
                 ELSE IF Len(parts) = 2 THEN parts[1].v * 60 + parts[2].v
                 ELSE IF Len(parts) = 1 THEN parts[1].v
                 ELSE 0]

Text(said, chunk, userMessage) ==
    [said |-> said, chunk |-> chunk, userMessage |-> userMessage]

Item(speaker, timestamp, said) ==
    [speaker |-> speaker, timestamp |-> timestamp, text |-> Text(said, 0, NoMsg)]

\* ToSegment that keeps the time relative to the chunk
ToSegmentNoOffset(item, startTimeOffset) ==
    LET mm == Component(item.timestamp, 1)
        ss == Component(item.timestamp, 2)
    IN  [speaker |-> item.speaker, timestamp |-> item.timestamp,
         startTimeSeconds |-> (IF mm.nan THEN 0 ELSE mm.v * 60)
                              + (IF ss.nan THEN 0 ELSE ss.v),
         text |-> item.text]

\* transcribeChunk lines 114-125: one response item to a TranscriptSegment
ToSegment(item, startTimeOffset) ==
    LET mm == Component(item.timestamp, 1)
        ss == Component(item.timestamp, 2)
        segmentSeconds == (IF mm.nan THEN 0 ELSE mm.v * 60)
                          + (IF ss.nan THEN 0 ELSE ss.v)
    IN  [speaker |-> item.speaker, timestamp |-> item.timestamp,
         startTimeSeconds |-> startTimeOffset + segmentSeconds,
         text |-> item.text]

\* Placeholder numbering the chunk from 0 instead of 1
PlaceholderFromZero(i, startTimeOffset, userMessage) ==
    [speaker |-> "System", timestamp |-> <<"Error">>,
     startTimeSeconds |-> startTimeOffset,
     text |-> [said |-> "[chunk failed]", chunk |-> i, userMessage |-> userMessage]]

\* processAudio lines 157-162: the placeholder of a failed chunk
Placeholder(i, startTimeOffset, userMessage) ==
    [speaker |-> "System", timestamp |-> <<"Error">>,
     startTimeSeconds |-> startTimeOffset,
     text |-> Text("[chunk failed]", i + 1, userMessage)]

-----------------------------------------------------------------------------
(* RetryingTranscriber: transcribeChunk and transcribeWithRetry *)

\* What the remote capability does at one attempt.
Rsp(items) == [kind |-> "json", items |-> items, err |-> NoErr]
NoText == [kind |-> "empty", items |-> << >>, err |-> NoErr]
BadJson == [kind |-> "badjson", items |-> << >>, err |-> NoErr]
Reject(err) == [kind |-> "reject", items |-> << >>, err |-> err]

Returned(segs) == [ok |-> TRUE, segs |-> segs, err |-> NoErr]
Thrown(err) == [ok |-> FALSE, segs |-> << >>, err |-> err]
NoOutcome == [ok |-> FALSE, segs |-> << >>, err |-> NoErr]

\* The function handed to transcribeWithRetry (geminiService.ts 53-131):
\* one remote call, the response parsed and its timestamps made absolute.
Fn(remote, startTimeOffset) ==
    CASE remote.kind = "reject"  -> Thrown(remote.err)
      [] remote.kind = "empty"   -> Thrown(Err("No response from Gemini", {}))
      [] remote.kind = "badjson" -> Thrown(Err("Gemini returned invalid JSON", {}))
      [] OTHER -> Returned([k \in 1..Len(remote.items) |->
                               ToSegment(remote.items[k], startTimeOffset)])

\* a backoff that grows by one retryDelay per attempt
Pow2Linear(n) == n + 1

RECURSIVE Pow2(_)
Pow2(n) == IF n <= 0 THEN 1 ELSE 2 * Pow2(n - 1)

\* events of one transcribeWithRetry call: fn invoked, setTimeout awaited
Called == [ev |-> "call", ms |-> 0]
Waited(ms) == [ev |-> "wait", ms |-> ms]

\* The loop of transcribeWithRetry from `attempt` on.  fnResults[k] is what
\* the k-th invocation of fn does; calls counts the invocations made, waits
\* lists the setTimeout delays, trace lists the calls and waits in order.
RECURSIVE RetryLoop(_, _, _, _, _, _)
RetryLoop(fnResults, maxRetries, retryDelay, attempt, lastError, acc) ==
    IF attempt <= maxRetries
    THEN LET res == fnResults[attempt + 1]
             called == [acc EXCEPT !.calls = @ + 1, !.trace = Append(@, Called)]
         IN  IF res.ok
             THEN [out |-> res, calls |-> called.calls, waits |-> called.waits,
                   trace |-> called.trace]
             ELSE RetryLoop(fnResults, maxRetries, retryDelay, attempt + 1, res.err,
                            IF attempt < maxRetries
                            THEN [called EXCEPT
                                    !.waits = Append(@, retryDelay * Pow2(attempt)),
                                    !.trace = Append(@, Waited(retryDelay * Pow2(attempt)))]
                            ELSE called)
    ELSE [out |-> Thrown(IF lastError = NoErr
                         THEN Err("Transcription failed after retries", {})
                         ELSE lastError),
          calls |-> acc.calls, waits |-> acc.waits, trace |-> acc.trace]

\* transcribeWithRetry whose loop tests attempt < maxRetries
transcribeWithRetryOneShort(fnResults, maxRetries, retryDelay) ==
    RetryLoop(fnResults, maxRetries - 1, retryDelay, 0, NoErr,
              [calls |-> 0, waits |-> << >>, trace |-> << >>])

transcribeWithRetry(fnResults, maxRetries, retryDelay) ==
    RetryLoop(fnResults, maxRetries, retryDelay, 0, NoErr,
              [calls |-> 0, waits |-> << >>, trace |-> << >>])

\* transcribeChunk: remotes[k] is what the service does at the k-th attempt
transcribeChunk(remotes, startTimeOffset, maxRetries, retryDelay) ==
    transcribeWithRetry([k \in 1..Len(remotes) |-> Fn(remotes[k], startTimeOffset)],
                        maxRetries, retryDelay)

-----------------------------------------------------------------------------
(* ProgressStore *)

SavedProgress(fileName, fileSize, segs, processedChunks, totalChunks, timestamp) ==
    [fileName |-> fileName, fileSize |-> fileSize, transcripts |-> segs,
     processedChunks |-> processedChunks, totalChunks |-> totalChunks,
     timestamp |-> timestamp]

\* saveProgress that stores the chunk index instead of the count
saveProgressOffByOne(fileName, fileSize, segs, processedChunks, totalChunks, t) ==
    << [fileName |-> fileName, fileSize |-> fileSize, transcripts |-> segs,
        processedChunks |-> processedChunks - 1, totalChunks |-> totalChunks,
        timestamp |-> t] >>

\* saveProgress that counts the chunk under way as processed
saveProgressCountsAhead(fileName, fileSize, segs, processedChunks, totalChunks, t) ==
    << [fileName |-> fileName, fileSize |-> fileSize, transcripts |-> segs,
        processedChunks |-> processedChunks + 1, totalChunks |-> totalChunks,
        timestamp |-> t] >>

\* saveProgress that keeps a stored record of another file
saveProgressKeepOther(fileName, fileSize, segs, processedChunks, totalChunks, t) ==
    IF store # << >> /\ store[1].fileName # fileName
    THEN store
    ELSE << [fileName |-> fileName, fileSize |-> fileSize, transcripts |-> segs,
             processedChunks |-> processedChunks, totalChunks |-> totalChunks,
             timestamp |-> t] >>

\* saveProgress: the store after the call
saveProgress(fileName, fileSize, segs, processedChunks, totalChunks, t) ==
    << SavedProgress(fileName, fileSize, segs, processedChunks, totalChunks, t) >>

\* saveProgress whose try has no catch: the exception of setItem escapes
saveProgressUncaught(st, full, fileName, fileSize, segs, processedChunks, totalChunks, t) ==
    IF full
    THEN [store |-> st, rejected |-> TRUE, threw |-> TRUE]
    ELSE [store |-> saveProgress(fileName, fileSize, segs, processedChunks,
                                 totalChunks, t),
          rejected |-> FALSE, threw |-> FALSE]

\* saveProgress (lines 25-37) on a store that may reject the write: when
\* setItem throws, the catch logs the error and the call returns normally.
saveProgressOn(st, full, fileName, fileSize, segs, processedChunks, totalChunks, t) ==
    IF full
    THEN [store |-> st, rejected |-> TRUE, threw |-> FALSE]
    ELSE [store |-> saveProgress(fileName, fileSize, segs, processedChunks,
                                 totalChunks, t),
          rejected |-> FALSE, threw |-> FALSE]

\* clearProgress: the store after the call
clearProgress == << >>

\* loadProgress that reports an expired record absent without removing it
loadProgressKeepExpired(st, fileName, fileSize, t) ==
    IF st = << >>
    THEN [result |-> << >>, store |-> st]
    ELSE IF st[1].fileName # fileName \/ st[1].fileSize # fileSize
              \/ t - st[1].timestamp > MAX_AGE_MS
         THEN [result |-> << >>, store |-> st]
         ELSE [result |-> st, store |-> st]

\* loadProgress that tests the age before the file
loadProgressAgeFirst(st, fileName, fileSize, t) ==
    IF st = << >>
    THEN [result |-> << >>, store |-> st]
    ELSE IF t - st[1].timestamp > MAX_AGE_MS
         THEN [result |-> << >>, store |-> clearProgress]
         ELSE IF st[1].fileName # fileName \/ st[1].fileSize # fileSize
         THEN [result |-> << >>, store |-> st]
         ELSE [result |-> st, store |-> st]

\* loadProgress that takes a record of exactly 24 hours for expired
loadProgressStrictAge(st, fileName, fileSize, t) ==
    IF st = << >>
    THEN [result |-> << >>, store |-> st]
    ELSE IF st[1].fileName # fileName \/ st[1].fileSize # fileSize
         THEN [result |-> << >>, store |-> st]
         ELSE IF t - st[1].timestamp >= MAX_AGE_MS
         THEN [result |-> << >>, store |-> clearProgress]
         ELSE [result |-> st, store |-> st]

\* loadProgress: the record returned (<< >> for null) and the store afterwards
loadProgress(st, fileName, fileSize, t) ==
    IF st = << >>
    THEN [result |-> << >>, store |-> st]
    ELSE LET progress == st[1]
         IN  IF progress.fileName # fileName \/ progress.fileSize # fileSize
             THEN [result |-> << >>, store |-> st]
             ELSE IF t - progress.timestamp > MAX_AGE_MS
             THEN [result |-> << >>, store |-> clearProgress]
             ELSE [result |-> <<progress>>, store |-> st]

\* history entries of storeLog: the call, who made it, the store after it
Saved(by, run, st) == [op |-> "save", by |-> by, run |-> run, st |-> st]
Cleared(by, run) == [op |-> "clear", by |-> by, run |-> run, st |-> << >>]
Rejected(by, run, st) == [op |-> "reject", by |-> by, run |-> run, st |-> st]

\* the calls in the log changed the store
Wrote(log) == \E k \in DOMAIN log : log[k].op # "reject"

-----------------------------------------------------------------------------
(* The React state `transcripts` and its queued updaters *)

\* An updater that saves whatever it appends
UpdAlwaysSaves(segs, save, f, processedChunks, totalChunks, run) ==
    [segs |-> segs, save |-> TRUE, fileName |-> f.name, fileSize |-> f.size,
     processedChunks |-> processedChunks, totalChunks |-> totalChunks, run |-> run]

\* An updater that appends its segments twice
UpdTwice(segs, save, f, processedChunks, totalChunks, run) ==
    [segs |-> segs \o segs, save |-> save, fileName |-> f.name, fileSize |-> f.size,
     processedChunks |-> processedChunks, totalChunks |-> totalChunks, run |-> run]

\* A queued updater prev => [...prev, ...segs]; with save, the updater of
\* lines 141-146, which also calls saveProgress(updated, processedChunks, ...).
Upd(segs, save, f, processedChunks, totalChunks, run) ==
    [segs |-> segs, save |-> save, fileName |-> f.name, fileSize |-> f.size,
     processedChunks |-> processedChunks, totalChunks |-> totalChunks, run |-> run]

\* React running the queued updaters in order at time t
\* An updater that throws leaves the state as it was.
RECURSIVE ApplyUpdates(_, _, _, _, _)
ApplyUpdates(ts, st, log, ups, t) ==
    IF ups = << >>
    THEN [transcripts |-> ts, store |-> st, log |-> log]
    ELSE LET u == Head(ups)
             updated == ts \o u.segs
             sv == saveProgressOn(st, storeFull, u.fileName, u.fileSize, updated,
                                  u.processedChunks, u.totalChunks, t)
             st1 == IF u.save THEN sv.store ELSE st
             log1 == IF ~u.save THEN log
                     ELSE IF sv.rejected THEN Append(log, Rejected("chunk", u.run, st1))
                     ELSE Append(log, Saved("chunk", u.run, st1))
         IN  IF u.save /\ sv.threw
             THEN [transcripts |-> ts, store |-> st1, log |-> log1]
             ELSE ApplyUpdates(updated, st1, log1, Tail(ups), t)

\* The transcript the user will see once React has run every queued updater
Accumulated == ApplyUpdates(transcripts, store, << >>, pending, now).transcripts

-----------------------------------------------------------------------------
(* Runs: invocations of processAudio *)

RunIds == 1..MaxRuns

NoRun ==
    [pc |-> "idle",          \* idle | decoding | calling | done
     file |-> NoFile,        \* `file` of the closure
     closureT |-> << >>,     \* `transcripts` of the closure
     savedProgress |-> << >>,\* result of loadProgress (<< >> for null)
     shouldResume |-> FALSE, \* answer to window.confirm, FALSE when not asked
     i |-> 0,                \* loop variable
     totalChunks |-> 0,
     subs |-> << >>,         \* history: chunk indices handed to transcribeChunk
     acc |-> << >>,          \* history: the segments this run gave setTranscripts
     outcome |-> NoOutcome,  \* what the last transcribeChunk call did
     exit |-> "none",        \* how the function ended
     oldRec |-> FALSE,       \* history: the store still holds the record it
                             \* held when this run had made its resume decision
     stopAt |-> -1]          \* history: Len(subs) when stopProcessing was first
                             \* invoked during this run; -1 before that and
                             \* once the run has ended

Active(r) == runs[r].pc \in {"decoding", "calling"}

\* savedProgress && savedProgress.transcripts.length > 0
Eligible(savedProgress) ==
    savedProgress # << >> /\ Len(savedProgress[1].transcripts) > 0

\* any write to the store ends the life of the record the runs found
ResetOld(rs, log) ==
    IF ~Wrote(log) THEN rs ELSE [k \in DOMAIN rs |-> [rs[k] EXCEPT !.oldRec = FALSE]]

\* startChunk that ignores the stored progress
StartChunkZero(savedProgress) == 0

\* processAudio lines 110-112
StartChunk(savedProgress) ==
    IF Eligible(savedProgress) THEN savedProgress[1].processedChunks ELSE 0

\* A loop that waits for a failed chunk instead of going on
LoopHeadHangs(r, run, i, curStatus, st, log) ==
    IF run.pc = "calling" /\ ~run.outcome.ok
    THEN [run |-> [run EXCEPT !.pc = "waiting"],
          status |-> curStatus, store |-> st, log |-> log]
    ELSE IF i < run.totalChunks /\ ~abort
    THEN [run |-> [run EXCEPT !.pc = "calling", !.i = i, !.subs = Append(@, i)],
          status |-> curStatus, store |-> st, log |-> log]
    ELSE IF i < run.totalChunks
    THEN [run |-> [run EXCEPT !.pc = "done", !.stopAt = -1, !.i = i, !.exit = "stopped"],
          status |-> "STOPPED",
          store |-> saveProgress(run.file.name, run.file.size, run.closureT, i,
                                 run.totalChunks, now),
          log |-> Append(log, Saved("stop", r, saveProgress(run.file.name,
                                   run.file.size, run.closureT, i,
                                   run.totalChunks, now)))]
    ELSE IF ~abort
    THEN [run |-> [run EXCEPT !.pc = "done", !.stopAt = -1, !.i = i, !.exit = "completed"],
          status |-> "COMPLETED", store |-> clearProgress,
          log |-> Append(log, Cleared("complete", r))]
    ELSE [run |-> [run EXCEPT !.pc = "done", !.stopAt = -1, !.i = i, !.exit = "ended"],
          status |-> curStatus, store |-> st, log |-> log]

\* processAudio lines 118-131 and 166-171: the head of loop iteration i, and
\* the exit of the loop.  Yields the run, the status, the store and the log.
LoopHead(r, run, i, curStatus, st, log) ==
    IF i < run.totalChunks
    THEN IF abort
         THEN LET sv == saveProgressOn(st, storeFull, run.file.name, run.file.size,
                                       run.closureT, i, run.totalChunks, now)
                  log1 == Append(log, IF sv.rejected THEN Rejected("stop", r, sv.store)
                                      ELSE Saved("stop", r, sv.store))
              IN  IF sv.threw    \* to the outer catch, lines 173-178
                  THEN [run |-> [run EXCEPT !.pc = "done", !.stopAt = -1, !.i = i, !.exit = "error"],
                        status |-> "ERROR", store |-> sv.store, log |-> log1]
                  ELSE [run |-> [run EXCEPT !.pc = "done", !.stopAt = -1, !.i = i, !.exit = "stopped"],
                        status |-> "STOPPED", store |-> sv.store, log |-> log1]
         ELSE [run |-> [run EXCEPT !.pc = "calling", !.i = i, !.subs = Append(@, i)],
               status |-> curStatus, store |-> st, log |-> log]
    ELSE IF ~abort
         THEN [run |-> [run EXCEPT !.pc = "done", !.stopAt = -1, !.i = i, !.exit = "completed"],
               status |-> "COMPLETED", store |-> clearProgress,
               log |-> Append(log, Cleared("complete", r))]
         ELSE [run |-> [run EXCEPT !.pc = "done", !.stopAt = -1, !.i = i, !.exit = "ended"],
               status |-> curStatus, store |-> st, log |-> log]

-----------------------------------------------------------------------------
(* Inputs *)

ItemA == Item("S1", <<"00", "05">>, "hello")
ItemB == Item("S2", <<"1", "30">>, "world")
ItemC == Item("S1", <<"abc", "07">>, "again")

ErrNetwork == Err("network down", {"network"})
ErrApiKey == Err("API key not valid, quota untouched", {"API key", "quota"})

\* What the service does at the attempts of one transcribeChunk call
Oracles ==
    { <<Reject(ErrNetwork), Rsp(<<ItemA, ItemB, ItemC>>), NoText, NoText>>,
      <<NoText, Reject(ErrNetwork), Reject(ErrNetwork), BadJson>>,
      <<BadJson, BadJson, NoText, Reject(ErrApiKey)>> }

DecodeError == Err("Unable to decode audio data", {})

\* what setItem throws when the store is full
QuotaError == Err("QuotaExceededError", {})

-----------------------------------------------------------------------------
(* Actions of the pipeline *)

\* The model follows the user up to the last run the bound allows.
Live == nrun < MaxRuns \/ \E r \in RunIds : Active(r)

\* handleFileChange (lines 46-53); the input's change event fires when the
\* selection differs from the current one.
handleFileChange(f) ==
    /\ pending = << >>
    /\ Live
    /\ f # file
    /\ file' = f
    /\ status' = "IDLE"
    /\ transcripts' = << >>
    /\ errorMsg' = NoMsg
    /\ storeLog' = << >>
    /\ UNCHANGED <<apiKey, pending, abort, store, now, runs, nrun, rt, storeFull>>

\* handleSaveKey (lines 40-44) with a non-empty key.  Saving an empty key
\* only disables the start button again and is left out.
handleSaveKey ==
    /\ pending = << >>
    /\ ~apiKey
    /\ apiKey' = TRUE
    /\ storeLog' = << >>
    /\ UNCHANGED <<file, status, transcripts, pending, errorMsg, abort, store,
                   now, runs, nrun, rt, storeFull>>

\* stopProcessing (lines 55-58), behind the stop button (lines 287-294)
stopProcessing ==
    /\ pending = << >>
    /\ status \in {"PROCESSING", "PREPARING"}
    /\ abort' = TRUE
    /\ status' = "STOPPED"
    /\ storeLog' = << >>
    /\ runs' = [k \in RunIds |->
                  IF Active(k) /\ runs[k].stopAt = -1
                  THEN [runs[k] EXCEPT !.stopAt = Len(runs[k].subs)]
                  ELSE runs[k]]
    /\ UNCHANGED <<file, apiKey, transcripts, pending, errorMsg, store, now,
                   nrun, rt, storeFull>>

\* processAudio up to its first await (lines 68-100), behind the start
\* button (lines 295-303)
processAudio(confirm) ==
    /\ pending = << >>
    /\ status \notin {"PROCESSING", "PREPARING"}
    /\ file # NoFile /\ apiKey
    /\ nrun < MaxRuns
    /\ LET r == nrun + 1
           lp == loadProgress(store, file.name, file.size, now)
           asked == Eligible(lp.result)
           log0 == IF lp.store # store THEN <<Cleared("load", r)>> ELSE << >>
           declined == asked /\ ~confirm
           st1 == IF declined THEN clearProgress ELSE lp.store
           log1 == IF declined THEN Append(log0, Cleared("decline", r)) ELSE log0
       IN  /\ (~asked => confirm = FALSE)
           /\ abort' = FALSE
           /\ status' = "PREPARING"
           /\ errorMsg' = NoMsg
           /\ transcripts' = IF asked /\ confirm THEN lp.result[1].transcripts
                             ELSE << >>
           /\ store' = st1
           /\ storeLog' = log1
           /\ runs' = [ResetOld(runs, log1) EXCEPT ![r] =
                          [NoRun EXCEPT !.pc = "decoding", !.file = file,
                                        !.closureT = transcripts,
                                        !.savedProgress = lp.result,
                                        !.shouldResume = asked /\ confirm,
                                        !.acc = IF asked /\ confirm
                                                THEN lp.result[1].transcripts
                                                ELSE << >>,
                                        !.oldRec = (st1 # << >>)]]
           /\ nrun' = r
    /\ UNCHANGED <<file, apiKey, pending, now, rt, storeFull>>

\* decodeAudio rejects: the outer catch (lines 173-178)
DecodeFail(r) ==
    /\ runs[r].pc = "decoding"
    /\ errorMsg' = parseAudioError(DecodeError).userMessage
    /\ status' = "ERROR"
    /\ runs' = [runs EXCEPT ![r].pc = "done", ![r].stopAt = -1,
                             ![r].exit = "decodeError"]
    /\ storeLog' = << >>
    /\ UNCHANGED <<file, apiKey, transcripts, pending, abort, store, now, nrun, rt, storeFull>>

\* decodeAudio resolves: lines 102-131 up to the first transcribeChunk
DecodeDone(r) ==
    /\ runs[r].pc = "decoding"
    /\ IF abort
       THEN /\ runs' = [runs EXCEPT ![r].pc = "done", ![r].stopAt = -1,
                                  ![r].exit = "aborted"]
            /\ storeLog' = << >>
            /\ UNCHANGED <<status, store, errorMsg>>
       ELSE LET run == runs[r]
                chunks == splitAudioBuffer(AudioOf(run.file), CHUNK_DURATION)
                startChunk == StartChunk(run.savedProgress)
                lh == LoopHead(r, [run EXCEPT !.totalChunks = Len(chunks)],
                               startChunk, "PROCESSING", store, << >>)
            IN  /\ runs' = [ResetOld(runs, lh.log) EXCEPT ![r] =
                               [lh.run EXCEPT !.oldRec =
                                   IF ~Wrote(lh.log) THEN @ ELSE FALSE]]
                /\ status' = lh.status
                /\ store' = lh.store
                /\ storeLog' = lh.log
                /\ errorMsg' = IF lh.run.exit = "error"
                               THEN parseAudioError(QuotaError).userMessage
                               ELSE errorMsg
    /\ UNCHANGED <<file, apiKey, transcripts, pending, abort, now, nrun, rt, storeFull>>

\* transcribeChunk settles: lines 140-164, the next loop head, and the exit.
\* eager: React runs the updater inside setTranscripts; that matters for the
\* updater of a successful chunk, which writes to the store.
ChunkSettled(r, remotes, eager) ==
    /\ runs[r].pc = "calling"
    /\ eager => pending = << >>
    /\ \E res \in {transcribeChunk(remotes, runs[r].i * CHUNK_DURATION, 3,
                                    DefaultRetryDelay).out} :
                  \* line 140: { maxRetries: 3 }, retryDelay left to its default
         /\ eager => res.ok
         /\ LET run == runs[r]
                i == run.i
                startTimeOffset == i * CHUNK_DURATION
                appError == parseGeminiError(res.err)
                u == IF res.ok
                     THEN Upd(res.segs, TRUE, run.file, i + 1, run.totalChunks, r)
                     ELSE Upd(<<Placeholder(i, startTimeOffset, appError.userMessage)>>,
                              FALSE, run.file, i + 1, run.totalChunks, r)
            IN  \E ap \in {IF eager /\ res.ok
                            THEN ApplyUpdates(transcripts, store, << >>, <<u>>, now)
                            ELSE [transcripts |-> transcripts, store |-> store,
                                  log |-> << >>]} :
                \E lh \in {LoopHead(r, [run EXCEPT !.outcome = res, !.acc = @ \o u.segs],
                                     i + 1, status, ap.store, ap.log)} :
                   /\ transcripts' = ap.transcripts
                   /\ pending' = IF eager /\ res.ok THEN pending ELSE Append(pending, u)
                   /\ errorMsg' = IF lh.run.exit = "error"
                                  THEN parseAudioError(QuotaError).userMessage
                                  ELSE IF ~res.ok /\ ~appError.retryable
                                  THEN appError.userMessage ELSE errorMsg
                   /\ runs' = [ResetOld(runs, lh.log) EXCEPT ![r] =
                                  [lh.run EXCEPT !.oldRec =
                                      IF ~Wrote(lh.log) THEN @ ELSE FALSE]]
                   /\ status' = lh.status
                   /\ store' = lh.store
                   /\ storeLog' = lh.log
    /\ UNCHANGED <<file, apiKey, abort, now, nrun, rt, storeFull>>

\* React processes the update queue: the queued updaters run in order
Render ==
    /\ pending # << >>
    /\ LET ap == ApplyUpdates(transcripts, store, << >>, pending, now)
       IN  /\ transcripts' = ap.transcripts
           /\ store' = ap.store
           /\ storeLog' = ap.log
           /\ runs' = ResetOld(runs, ap.log)
    /\ pending' = << >>
    /\ UNCHANGED <<file, apiKey, status, errorMsg, abort, now, nrun, rt, storeFull>>

\* The page is reloaded: the component's state is rebuilt (lines 18-38), the
\* tasks of the old page never run, localStorage stays.
Reload ==
    /\ Live
    /\ file' = NoFile
    /\ status' = "IDLE"
    /\ transcripts' = << >>
    /\ pending' = << >>
    /\ errorMsg' = NoMsg
    /\ abort' = FALSE
    /\ storeLog' = << >>
    /\ runs' = [k \in RunIds |->
                  IF Active(k)
                  THEN [runs[k] EXCEPT !.pc = "done", !.stopAt = -1, !.exit = "reloaded"]
                  ELSE runs[k]]
    /\ UNCHANGED <<apiKey, store, now, nrun, rt, storeFull>>

\* Date.now() advances.  A run is short against the 24-hour step, so the
\* clock steps only while no run is under way; the clock is read only for a
\* stored record's age, so it steps only while a record is stored.
Tick ==
    /\ now < MaxTicks * TickMs
    /\ store # << >>
    /\ Live
    /\ pending = << >>
    /\ \A r \in RunIds : ~Active(r)
    /\ now' = now + TickMs
    /\ storeLog' = << >>
    /\ UNCHANGED <<file, apiKey, status, transcripts, pending, errorMsg, abort,
                   store, runs, nrun, rt, storeFull>>

-----------------------------------------------------------------------------
(* The specification of the pipeline *)

RtIdle == [phase |-> "unused", maxRetries |-> 0, retryDelay |-> 0,
           fnResults |-> << >>,
           res |-> [out |-> NoOutcome, calls |-> 0, waits |-> << >>, trace |-> << >>]]

InitPipe ==
    /\ file = NoFile
    /\ apiKey = FALSE
    /\ status = "IDLE"
    /\ transcripts = << >>
    /\ pending = << >>
    /\ errorMsg = NoMsg
    /\ abort = FALSE
    /\ store = << >>
    /\ storeLog = << >>
    /\ now = 0
    /\ runs = [k \in RunIds |-> NoRun]
    /\ nrun = 0
    /\ storeFull = FALSE

Init == InitPipe /\ rt = RtIdle

Next ==
    \/ \E f \in Files : handleFileChange(f)
    \/ handleSaveKey
    \/ stopProcessing
    \/ \E c \in BOOLEAN : processAudio(c)
    \/ \E r \in RunIds : DecodeFail(r)
    \/ \E r \in RunIds : DecodeDone(r)
    \/ \E r \in RunIds, o \in Oracles, e \in BOOLEAN : ChunkSettled(r, o, e)
    \/ Render
    \/ Reload
    \/ Tick

Spec == Init /\ [][Next]_vars

\* The pipeline when every await settles: decodeAudio resolves or rejects
\* (line 100), every transcribeChunk call returns or throws (line 140; its
\* retry loop makes at most maxRetries + 1 attempts with finite waits), and
\* React runs the updaters it has queued.
Fairness ==
    /\ \A r \in RunIds : WF_vars(DecodeFail(r) \/ DecodeDone(r))
    /\ \A r \in RunIds :
           WF_vars(\E o \in Oracles, e \in BOOLEAN : ChunkSettled(r, o, e))
    /\ WF_vars(Render)

\* The clock and a reload of the page play no part in whether a run ends
\* (a reload ends every run at once).
NextLive ==
    \/ \E f \in Files : handleFileChange(f)
    \/ handleSaveKey
    \/ stopProcessing
    \/ \E c \in BOOLEAN : processAudio(c)
    \/ \E r \in RunIds : DecodeFail(r)
    \/ \E r \in RunIds : DecodeDone(r)
    \/ \E r \in RunIds, o \in Oracles, e \in BOOLEAN : ChunkSettled(r, o, e)
    \/ Render

SpecLive == Init /\ [][NextLive]_vars /\ Fairness

\* The pipeline when the user lets every run finish: no stop request, no
\* reload, and a file is selected only while no run is under way.
NextUndisturbed ==
    \/ \E f \in Files : (\A r \in RunIds : ~Active(r)) /\ handleFileChange(f)
    \/ handleSaveKey
    \/ \E c \in BOOLEAN : processAudio(c)
    \/ \E r \in RunIds : DecodeFail(r)
    \/ \E r \in RunIds : DecodeDone(r)
    \/ \E r \in RunIds, o \in Oracles, e \in BOOLEAN : ChunkSettled(r, o, e)
    \/ Render
    \/ Tick

SpecUndisturbed == Init /\ [][NextUndisturbed]_vars

-----------------------------------------------------------------------------
(* transcribeWithRetry as a function of its options and of what fn does *)

SegOf(item) == ToSegment(item, 0)

FnResults ==
    { Returned(<<SegOf(ItemA)>>), Returned(<<SegOf(ItemB), SegOf(ItemC)>>),
      Thrown(ErrNetwork), Thrown(ErrApiKey) }

\* fnResults lists one result more than the loop may ask for
RetryInputs ==
    { [phase |-> "input", maxRetries |-> m, retryDelay |-> d,
       fnResults |-> f, res |-> RtIdle.res] :
          m \in 0..MaxRetriesBound, d \in {DefaultRetryDelay, 250},
          f \in UNION { [1..(k + 2) -> FnResults] : k \in 0..MaxRetriesBound } }

InitRetry ==
    /\ file = NoFile
    /\ apiKey = FALSE
    /\ status = "IDLE"
    /\ transcripts = << >>
    /\ pending = << >>
    /\ errorMsg = NoMsg
    /\ abort = FALSE
    /\ store = << >>
    /\ storeLog = << >>
    /\ now = 0
    /\ runs = [k \in RunIds |-> NoRun]
    /\ nrun = 0
    /\ storeFull = FALSE
    /\ rt \in { x \in RetryInputs : Len(x.fnResults) = x.maxRetries + 2 }

RetryRun ==
    /\ rt.phase = "input"
    /\ rt' = [rt EXCEPT !.phase = "output",
                        !.res = transcribeWithRetry(rt.fnResults, rt.maxRetries,
                                                    rt.retryDelay)]
    /\ UNCHANGED pipeVars

NextRetry == RetryRun

SpecRetry == InitRetry /\ [][NextRetry]_vars

-----------------------------------------------------------------------------
(* splitAudioBuffer as a function of the buffer and the chunk duration *)

SplitInputs ==
    { [phase |-> "input", length |-> l, sampleRate |-> sr,
       chunkDurationSeconds |-> d, chunks |-> << >>] :
          l \in 0..MaxFrames, sr \in 1..MaxRate, d \in 1..MaxChunkSeconds }

InitSplit == InitPipe /\ rt \in SplitInputs

SplitRun ==
    /\ rt.phase = "input"
    /\ rt' = [rt EXCEPT !.phase = "output",
                        !.chunks = splitAudioBuffer(
                                       [length |-> rt.length, sampleRate |-> rt.sampleRate],
                                       rt.chunkDurationSeconds)]
    /\ UNCHANGED pipeVars

NextSplit == SplitRun

SpecSplit == InitSplit /\ [][NextSplit]_vars

-----------------------------------------------------------------------------
(* audioBufferToWav as a function of the buffer *)

\* sample k of channel c in pattern p, in halves: -1.5 .. 1.5
SampleAt(p, c, k) == ((p + 2 * c + k * (p + 1)) % 7) - 3

WavInputs ==
    { [phase |-> "input",
       buffer |-> [numberOfChannels |-> ch, length |-> l, sampleRate |-> 8000,
                   channels |-> [c \in 1..ch |->
                                   [k \in 1..l |-> SampleAt(p, c - 1, k - 1)]]],
       wav |-> << >>] :
          l \in 0..MaxWavFrames, ch \in 1..MaxChannels, p \in 0..MaxPatterns }

InitWav == InitPipe /\ rt \in WavInputs

WavRun ==
    /\ rt.phase = "input"
    /\ rt' = [rt EXCEPT !.phase = "output", !.wav = <<audioBufferToWav(rt.buffer)>>]
    /\ UNCHANGED pipeVars

NextWav == WavRun

SpecWav == InitWav /\ [][NextWav]_vars

-----------------------------------------------------------------------------
(* parseTimeStringToSeconds as a function of the time string *)

TimeComponents == {"1", "30", "05", "12", "02", "03", "", "abc"}

RECURSIVE SeqsUpTo(_, _)
SeqsUpTo(S, n) ==
    IF n = 0 THEN { << >> }
    ELSE LET shorter == SeqsUpTo(S, n - 1)
         IN  shorter \cup { Append(q, x) : q \in shorter, x \in S }

TimeInputs ==
    { [phase |-> "input", timeStr |-> q, res |-> [threw |-> FALSE, value |-> 0]] :
          q \in SeqsUpTo(TimeComponents, MaxComponents) }

InitTime == InitPipe /\ rt \in TimeInputs

TimeRun ==
    /\ rt.phase = "input"
    /\ rt' = [rt EXCEPT !.phase = "output",
                        !.res = parseTimeStringToSeconds(rt.timeStr)]
    /\ UNCHANGED pipeVars

NextTime == TimeRun

SpecTime == InitTime /\ [][NextTime]_vars

-----------------------------------------------------------------------------
(* parseGeminiError as a function of the error message *)

\* the substrings parseGeminiError looks for
Keywords == {"API key", "authentication", "quota", "rate limit", "network", "fetch"}

\* An error message for each set of keywords it may include; the message
\* with none of them also stands for error?.message || error?.toString()
\* || '' of a value without a message.
ClassifyInputs ==
    { [phase |-> "input", error |-> Err("message", has),
       res |-> AppError("", "", NoMsg, FALSE)] : has \in SUBSET Keywords }

InitClassify == InitPipe /\ rt \in ClassifyInputs

ClassifyRun ==
    /\ rt.phase = "input"
    /\ rt' = [rt EXCEPT !.phase = "output", !.res = parseGeminiError(rt.error)]
    /\ UNCHANGED pipeVars

NextClassify == ClassifyRun

SpecClassify == InitClassify /\ [][NextClassify]_vars

-----------------------------------------------------------------------------
(* loadProgress as a function of the store, the query and the clock *)

\* The store is empty or holds one record, written at time 0; the query names
\* the record's file, a file of another name or one of another size; the
\* clock is at, just below, at and just above 24 hours, or at 48 hours.
LoadInputs ==
    { [phase |-> "input", st |-> st, fileName |-> n, fileSize |-> z, t |-> t,
       res |-> [result |-> << >>, store |-> << >>]] :
          st \in {<< >>} \cup
                 { <<SavedProgress(rn, rz, <<SegOf(ItemA)>>, 1, 2, 0)>> :
                      rn \in {"a.mp3", "b.mp3"}, rz \in {1000, 2000} },
          n \in {"a.mp3", "b.mp3"}, z \in {1000, 2000},
          t \in {0, MAX_AGE_MS - 1, MAX_AGE_MS, MAX_AGE_MS + 1, 2 * MAX_AGE_MS} }

InitLoad == InitPipe /\ rt \in LoadInputs

LoadRun ==
    /\ rt.phase = "input"
    /\ rt' = [rt EXCEPT !.phase = "output",
                        !.res = loadProgress(rt.st, rt.fileName, rt.fileSize, rt.t)]
    /\ UNCHANGED pipeVars

NextLoad == LoadRun

SpecLoad == InitLoad /\ [][NextLoad]_vars

-----------------------------------------------------------------------------
(* The pipeline on a store that runs full: from some moment on every        *)
(* setItem throws; removeItem still succeeds.                               *)

StorageFills ==
    /\ ~storeFull
    /\ pending = << >>
    /\ Live
    /\ storeFull' = TRUE
    /\ storeLog' = << >>
    /\ UNCHANGED <<file, apiKey, status, transcripts, pending, errorMsg, abort,
                   store, now, runs, nrun, rt>>

NextQuota ==
    \/ \E f \in Files : handleFileChange(f)
    \/ handleSaveKey
    \/ stopProcessing
    \/ \E c \in BOOLEAN : nrun < MaxQuotaRuns /\ processAudio(c)
    \/ \E r \in RunIds : DecodeFail(r)
    \/ \E r \in RunIds : DecodeDone(r)
    \/ \E r \in RunIds, o \in Oracles, e \in BOOLEAN : ChunkSettled(r, o, e)
    \/ Render
    \/ Reload
    \/ Tick
    \/ StorageFills

SpecQuota == Init /\ [][NextQuota]_vars

-----------------------------------------------------------------------------
(* Properties *)

Last(q) == q[Len(q)]

\* the step in which run r's pending transcribeChunk call settles
Settled(r) == runs[r].pc = "calling" /\ runs'[r].i = runs[r].i + 1

\* the step in which React runs the queued updaters
RenderStep == pending # << >> /\ pending' = << >> /\ file' = file

RECURSIVE SegsOf(_)
SegsOf(ups) == IF ups = << >> THEN << >> ELSE Head(ups).segs \o SegsOf(Tail(ups))

\* run r has set the status to PROCESSING
Entered(r) ==
    \/ runs[r].pc = "calling"
    \/ runs[r].exit \in {"stopped", "completed", "ended"}
    \/ runs[r].exit = "reloaded" /\ runs[r].subs # << >>

InFlight == {r \in RunIds : runs[r].pc = "calling"}

\* C1: when the transcribeChunk call for chunk i fails after its retries,
\* exactly one placeholder (speaker "System", start i * CHUNK_DURATION, text
\* naming chunk i + 1) is appended to the accumulated transcript and the loop
\* goes on to iteration i + 1 or to the exit, whatever the classification.
C1_FailedChunkPlaceholder ==
    [][\A r \in RunIds :
         (Settled(r) /\ ~runs'[r].outcome.ok) =>
            LET i == runs[r].i
                n == runs[r].totalChunks
                before == Accumulated
                after == Accumulated'
            IN  /\ Len(after) = Len(before) + 1
                /\ SubSeq(after, 1, Len(before)) = before
                /\ Last(after).speaker = "System"
                /\ Last(after).startTimeSeconds = i * CHUNK_DURATION
                /\ Last(after).text.chunk = i + 1
                /\ status' \in {status, "STOPPED", "COMPLETED"}
                /\ IF i + 1 < n
                   THEN IF abort
                        THEN runs'[r].exit = "stopped"
                        ELSE /\ runs'[r].pc = "calling"
                             /\ runs'[r].subs = Append(runs[r].subs, i + 1)
                   ELSE runs'[r].exit \in {"completed", "ended"}
      ]_vars

\* C1 witness: a run whose chunk 0 failed with a non-retryable classification
\* is transcribing chunk 1, the placeholder of chunk 1 (1-based) last.
C1_Witness ==
    \E r \in RunIds :
        /\ runs[r].pc = "calling" /\ runs[r].i = 1
        /\ runs[r].outcome = Thrown(ErrApiKey)
        /\ Accumulated # << >>
        /\ Last(Accumulated).speaker = "System"
        /\ Last(Accumulated).text.chunk = 1

\* C2: when the stop signal is seen at the head of iteration i, chunk i is
\* not submitted and the record written holds every segment the run has
\* accumulated, processedChunks = i and totalChunks = the chunk count.
C2_StopSaveHoldsAccumulated ==
    \A k \in DOMAIN storeLog :
        storeLog[k].by = "stop" =>
            LET run == runs[storeLog[k].run]
                rec == storeLog[k].st[1]
            IN  /\ \A j \in DOMAIN run.subs : run.subs[j] < run.i
                /\ rec.transcripts = run.acc
                /\ rec.processedChunks = run.i
                /\ rec.totalChunks = run.totalChunks

\* C3: the only run so far was stopped after k chunks (0 < k < n), has ended,
\* and every queued update is applied: loadProgress for its file within 24
\* hours returns processedChunks = k, totalChunks = n and the run's segments.
C3_StoppedRunReloads ==
    \A r \in RunIds :
        ( /\ nrun = 1
          /\ runs[r].exit = "stopped"
          /\ 0 < runs[r].i /\ runs[r].i < runs[r].totalChunks
          /\ pending = << >>
          /\ (store # << >> => now - store[1].timestamp <= MAX_AGE_MS) )
        => LET got == loadProgress(store, runs[r].file.name, runs[r].file.size,
                                   now).result
           IN  /\ got # << >>
               /\ got[1].processedChunks = runs[r].i
               /\ got[1].totalChunks = runs[r].totalChunks
               /\ got[1].transcripts = runs[r].acc

\* C4: a run that resumes starts with exactly the stored record's segments as
\* its transcript, submits the chunk at index processedChunks first, and
\* submits no chunk below processedChunks.
C4_ResumeFromRecord ==
    [][\A r \in RunIds :
         /\ (runs[r].pc = "idle" /\ runs'[r].pc = "decoding" /\ runs'[r].shouldResume)
            => /\ store # << >>
               /\ store[1].fileName = file.name /\ store[1].fileSize = file.size
               /\ Len(store[1].transcripts) > 0
               /\ Accumulated' = store[1].transcripts
               /\ runs'[r].savedProgress = store
         /\ runs'[r].shouldResume
            => LET from == runs'[r].savedProgress[1].processedChunks
                   subs == runs'[r].subs
               IN  /\ \A k \in DOMAIN subs : subs[k] >= from
                   /\ subs # << >> => subs[1] = from
      ]_vars

\* C4 witness: a resumed run has submitted a chunk with an index above 0
C4_Witness ==
    \E r \in RunIds :
        /\ runs[r].shouldResume
        /\ runs[r].subs # << >> /\ runs[r].subs[1] > 0
        /\ runs[r].acc # << >>

\* C5: a run that does not resume starts with an empty transcript and
\* submits chunk 0 first.
C5_NoResumeStartsAtZero ==
    \A r \in RunIds :
        (runs[r].pc # "idle" /\ ~runs[r].shouldResume) =>
            /\ runs[r].subs = << >> => runs[r].acc = << >>
            /\ runs[r].subs # << >> => runs[r].subs[1] = 0

\* C6 as claimed: once a run that does not resume has entered Processing,
\* the record the store held when the run made its resume decision is gone.
C6_NoResumeLeavesNoRecord ==
    \A r \in RunIds : (Entered(r) /\ ~runs[r].shouldResume) => ~runs[r].oldRec

\* C6 amended: once a run that does not resume has entered Processing, a
\* record that the store still holds from before the run is a record of
\* another file or a record without segments; a matching record with
\* segments (declined, or expired) has been removed.
C6_DeclinedOrExpiredRemoved ==
    \A r \in RunIds :
        (Entered(r) /\ ~runs[r].shouldResume /\ runs[r].oldRec) =>
            /\ store # << >>
            /\ \/ store[1].fileName # runs[r].file.name
               \/ store[1].fileSize # runs[r].file.size
               \/ Len(store[1].transcripts) = 0

\* C6 witness: a run whose user declined the resume offer is processing and
\* the record it was offered is gone.
C6_Witness ==
    \E r \in RunIds :
        /\ runs[r].pc = "calling"
        /\ Eligible(runs[r].savedProgress) /\ ~runs[r].shouldResume
        /\ ~runs[r].oldRec

\* C7: the loop of the only run so far finished without a stop: the status
\* became COMPLETED and, with every queued update applied, the store holds
\* no record.
C7_CompletedClearsStore ==
    /\ \A k \in DOMAIN storeLog : storeLog[k].by = "complete" => status = "COMPLETED"
    /\ \A r \in RunIds :
        (nrun = 1 /\ runs[r].exit = "completed" /\ pending = << >>) =>
            /\ store = << >>
            /\ loadProgress(store, runs[r].file.name, runs[r].file.size, now).result
                 = << >>

\* C8: a successful chunk i appends its segments, in order, to the end of the
\* accumulated transcript, and its updater, when React runs it, overwrites
\* the store with the whole transcript up to and including those segments,
\* processedChunks = i + 1 and totalChunks = the chunk count.
C8_SuccessAppendsAndSaves ==
    [][ /\ \A r \in RunIds :
             (Settled(r) /\ runs'[r].outcome.ok) =>
                LET i == runs[r].i
                    f == runs[r].file
                    n == runs[r].totalChunks
                    segs == runs'[r].outcome.segs
                    rec == SavedProgress(f.name, f.size, Accumulated', i + 1, n, now)
                IN  /\ Accumulated' = Accumulated \o segs
                    /\ \/ /\ pending' = pending
                          /\ storeLog' # << >>
                          /\ storeLog'[1] = Saved("chunk", r, <<rec>>)
                          /\ Len(storeLog') = 1 => store' = <<rec>>
                       \/ pending' = Append(pending, Upd(segs, TRUE, f, i + 1, n, r))
        /\ RenderStep =>
             LET saves == {k \in DOMAIN pending : pending[k].save}
             IN  /\ transcripts' = transcripts \o SegsOf(pending)
                 /\ Len(storeLog') = Cardinality(saves)
                 /\ \A k \in saves :
                      LET u == pending[k]
                          rec == SavedProgress(u.fileName, u.fileSize,
                                     transcripts \o SegsOf(SubSeq(pending, 1, k)),
                                     u.processedChunks, u.totalChunks, now)
                      IN  /\ \E j \in DOMAIN storeLog' : storeLog'[j].st = <<rec>>
                          /\ (\A k2 \in saves : k2 <= k) => store' = <<rec>>
      ]_vars

\* C8 witness: the store holds the record of a successful chunk 0 of a
\* two-chunk file, with that chunk's three segments, while chunk 1 is on.
C8_Witness ==
    \E r \in RunIds :
        /\ runs[r].pc = "calling" /\ runs[r].i = 1 /\ runs[r].outcome.ok
        /\ pending = << >>
        /\ store # << >>
        /\ store[1].processedChunks = 1 /\ store[1].totalChunks = 2
        /\ store[1].transcripts = runs[r].outcome.segs
        /\ Len(store[1].transcripts) = 3

\* C9: transcribeWithRetry calls fn at most maxRetries + 1 times, stops at the
\* first call that succeeds and returns its result, and throws the last
\* call's error when all maxRetries + 1 calls fail.
C9_RetryBound ==
    rt.phase = "output" =>
        LET m == rt.maxRetries
            f == rt.fnResults
            oks == {k \in 1..(m + 1) : f[k].ok}
        IN  /\ rt.res.calls <= m + 1
            /\ oks # {} =>
                 LET first == CHOOSE k \in oks : \A k2 \in oks : k <= k2
                 IN  rt.res.calls = first /\ rt.res.out = f[first]
            /\ oks = {} =>
                 /\ rt.res.calls = m + 1
                 /\ rt.res.out = Thrown(f[m + 1].err)

\* C9 witness: with the default maxRetries all four calls failed
C9_Witness ==
    /\ rt.phase = "output"
    /\ rt.maxRetries = DefaultMaxRetries
    /\ rt.res.calls = 4
    /\ ~rt.res.out.ok
    /\ rt.res.out.err = ErrApiKey

\* C10: at most one transcribeChunk call is pending at any time, and each
\* run submits its chunks in strictly increasing index order.  Stated for
\* the runs of one file, which start and stop actions alone bring about.
C10_OneCallInFlight ==
    /\ \A r1, r2 \in InFlight : runs[r1].file = runs[r2].file => r1 = r2
    /\ \A r \in RunIds : \A j, k \in DOMAIN runs[r].subs :
           j < k => runs[r].subs[j] < runs[r].subs[k]

\* C11: once stopProcessing has been invoked during a run, that run hands no
\* further chunk to transcribeChunk: the chunks it has submitted are those it
\* had submitted at the moment of the stop, whatever the user does next.
C11_NoSubmitAfterStop ==
    \A r \in RunIds :
        runs[r].stopAt >= 0 => Len(runs[r].subs) = runs[r].stopAt

\* C12: when decodeAudio rejects, that task sets the status to ERROR and the
\* error message to the AUDIO_DECODE_ERROR user message and writes nothing to
\* the store; the run has submitted no chunk, and from then on it submits
\* none and makes no write to the store.
C12_DecodeFailureEndsRun ==
    [][\A r \in RunIds :
         /\ (runs[r].pc = "decoding" /\ runs'[r].exit = "decodeError")
            => /\ status' = "ERROR"
               /\ errorMsg' = UserMsg("audio format unsupported or corrupt", "")
               /\ store' = store /\ storeLog' = << >>
               /\ runs'[r].pc = "done" /\ runs'[r].subs = << >>
         /\ runs[r].exit = "decodeError"
            => /\ runs'[r].pc = "done" /\ runs'[r].subs = << >>
               /\ runs'[r].exit = "decodeError"
               /\ \A k \in DOMAIN storeLog' : storeLog'[k].run # r
      ]_vars

\* C12 witness: a run ended by a decode failure, the status ERROR and the
\* decode message shown, while the store keeps a record of an earlier run.
C12_Witness ==
    \E r \in RunIds :
        /\ runs[r].exit = "decodeError" /\ runs[r].subs = << >>
        /\ status = "ERROR"
        /\ errorMsg = UserMsg("audio format unsupported or corrupt", "")
        /\ store # << >>

\* The (name, size) pairs loadProgress is asked about: the files, and a file
\* with the name of one and another size.
QueryFiles == Files \cup { [name |-> "a.mp3", size |-> 999] }

\* C13: loadProgress(name, size) returns the stored record exactly when a
\* record is stored, its fileName and fileSize equal the arguments and
\* now - timestamp <= 24 hours, and returns null in every other case; the
\* call made by processAudio gives the run that result.
C13_LoadReturnsMatchingFresh ==
    [][ /\ \A q \in QueryFiles :
             LET got == loadProgress(store, q.name, q.size, now).result
             IN  IF /\ store # << >>
                    /\ store[1].fileName = q.name /\ store[1].fileSize = q.size
                    /\ now - store[1].timestamp <= 24 * 60 * 60 * 1000
                 THEN got = store
                 ELSE got = << >>
        /\ \A r \in RunIds :
             (runs[r].pc = "idle" /\ runs'[r].pc = "decoding") =>
                runs'[r].savedProgress =
                    IF /\ store # << >>
                       /\ store[1].fileName = file.name /\ store[1].fileSize = file.size
                       /\ now - store[1].timestamp <= 24 * 60 * 60 * 1000
                    THEN store
                    ELSE << >>
      ]_vars

\* C13 witness: processAudio was given a record that was exactly 24 hours old
C13_Witness ==
    \E r \in RunIds :
        /\ runs[r].pc = "decoding"
        /\ runs[r].savedProgress # << >>
        /\ now - runs[r].savedProgress[1].timestamp = 24 * 60 * 60 * 1000

\* C14: every accepted saveProgress leaves exactly one record in the store,
\* the one just saved (a record of another file is lost), the last save of a
\* task decides the store, and saving the stored record's own arguments
\* once or twice gives loadProgress records that differ in timestamp only.
C14_SaveOverwritesSingleRecord ==
    [][ /\ \A k \in DOMAIN storeLog' :
             storeLog'[k].op = "save" =>
                LET st == storeLog'[k].st
                    f == runs'[storeLog'[k].run].file
                IN  /\ Len(st) = 1
                    /\ st[1].fileName = f.name /\ st[1].fileSize = f.size
                    /\ k = Len(storeLog') => store' = st
        /\ store # << >> =>
             LET rec == store[1]
                 once == saveProgress(rec.fileName, rec.fileSize, rec.transcripts,
                                      rec.processedChunks, rec.totalChunks, now)
                 twice == saveProgress(rec.fileName, rec.fileSize, rec.transcripts,
                                       rec.processedChunks, rec.totalChunks, now + 1)
                 got1 == loadProgress(once, rec.fileName, rec.fileSize, now).result
                 got2 == loadProgress(twice, rec.fileName, rec.fileSize, now + 1).result
             IN  /\ Len(got1) = 1 /\ Len(got2) = 1
                 /\ [got1[1] EXCEPT !.timestamp = 0] = [got2[1] EXCEPT !.timestamp = 0]
                 /\ [got1[1] EXCEPT !.timestamp = 0] = [rec EXCEPT !.timestamp = 0]
      ]_vars

\* C14 witness: the first run left a record of b.mp3; the second run, on
\* a.mp3, has saved its chunk 0 and the store holds that record alone.
C14_Witness ==
    /\ runs[1].file.name = "b.mp3" /\ runs[1].exit = "ended" /\ runs[1].outcome.ok
    /\ runs[2].file.name = "a.mp3" /\ runs[2].pc = "calling" /\ runs[2].i = 1
    /\ runs[2].savedProgress = << >>
    /\ storeLog # << >> /\ Last(storeLog).op = "save" /\ Last(storeLog).run = 2
    /\ store # << >> /\ store[1].fileName = "a.mp3"

\* C15: while setItem throws, a successful chunk still adds its segments to
\* the accumulated transcript, no exception reaches the pipeline (the status
\* does not become ERROR, no record is written), and the loop goes on to the
\* next chunk, to the stop or to the exit; the updaters React runs later
\* still extend the transcript and leave the store as it was.
C15_RejectedSaveSwallowed ==
    [][ /\ \A r \in RunIds :
             (Settled(r) /\ runs'[r].outcome.ok /\ storeFull) =>
                LET i == runs[r].i
                    n == runs[r].totalChunks
                IN  /\ Accumulated' = Accumulated \o runs'[r].outcome.segs
                    /\ \A k \in DOMAIN storeLog' : storeLog'[k].op # "save"
                    /\ status' \in {status, "STOPPED", "COMPLETED"}
                    /\ IF i + 1 < n
                       THEN IF abort
                            THEN runs'[r].exit = "stopped"
                            ELSE /\ runs'[r].pc = "calling"
                                 /\ runs'[r].subs = Append(runs[r].subs, i + 1)
                       ELSE runs'[r].exit = IF abort THEN "ended" ELSE "completed"
        /\ (RenderStep /\ storeFull) =>
             /\ transcripts' = transcripts \o SegsOf(pending)
             /\ store' = store
             /\ \A k \in DOMAIN storeLog' : storeLog'[k].op = "reject"
      ]_vars

\* C15 witness: the run on the two-chunk file reached COMPLETED although the
\* save of its last chunk was rejected; the transcript holds both chunks.
C15_Witness ==
    /\ storeFull
    /\ status = "COMPLETED"
    /\ \E k \in DOMAIN storeLog :
          /\ storeLog[k].op = "reject" /\ storeLog[k].by = "chunk"
          /\ runs[storeLog[k].run].exit = "completed"
          /\ runs[storeLog[k].run].totalChunks = 2
          /\ runs[storeLog[k].run].outcome.ok
    /\ Len(transcripts) >= 4

RECURSIVE SumFrames(_)
SumFrames(chunks) ==
    IF chunks = << >> THEN 0 ELSE Head(chunks).frameCount + SumFrames(Tail(chunks))

\* C16: for a buffer of L frames and a chunk length of F > 0 frames,
\* splitAudioBuffer returns ceil(L / F) chunks; the first starts at frame 0,
\* each starts where the one before ends, the last ends at L; the lengths
\* sum to L, none is 0, all but the last are F and the last is at most F;
\* there is no chunk when L = 0.
C16_SplitPartition ==
    rt.phase = "output" =>
        LET L == rt.length
            F == rt.chunkDurationSeconds * rt.sampleRate
            c == rt.chunks
            n == Len(c)
        IN  /\ n = (L + F - 1) \div F
            /\ L = 0 => c = << >>
            /\ SumFrames(c) = L
            /\ n > 0 => c[1].start = 0 /\ c[n].start + c[n].frameCount = L
            /\ \A k \in 1..n :
                  /\ c[k].frameCount > 0 /\ c[k].frameCount <= F
                  /\ k < n => /\ c[k].frameCount = F
                              /\ c[k + 1].start = c[k].start + c[k].frameCount

\* C16 witness: 7 frames in chunks of 3 give chunks of 3, 3 and 1 frames
C16_Witness ==
    /\ rt.phase = "output"
    /\ rt.length = 7 /\ rt.chunkDurationSeconds * rt.sampleRate = 3
    /\ rt.chunks = << [start |-> 0, frameCount |-> 3], [start |-> 3, frameCount |-> 3],
                      [start |-> 6, frameCount |-> 1] >>

\* C17: audioBufferToWav stores, for each frame k in 0..frameCount-1 and each
\* channel c, the quantized value of input sample k of channel c as the
\* 16-bit sample at byte offset 44 + (k * channels + c) * 2, so that the data
\* part holds frameCount frames with the input's amplitudes.
C17_EveryFrameEncoded ==
    rt.phase = "output" =>
        LET buffer == rt.buffer
            ch == buffer.numberOfChannels
            wav == rt.wav[1]
        IN  /\ wav.byteLength = 44 + buffer.length * ch * 2
            /\ Len(wav.samples) = buffer.length * ch
            /\ \A k \in 0..(buffer.length - 1) : \A c \in 0..(ch - 1) :
                  wav.samples[k * ch + c + 1] = Quantize(buffer.channels[c + 1][k + 1])

\* Service timestamps with the seconds the first two components stand for
\* (minutes * 60 + seconds, a component that is no number counting as 0)
TimestampSeconds ==
    { << <<"00", "05">>, 5 >>, << <<"1", "30">>, 90 >>, << <<"abc", "07">>, 7 >>,
      << <<"05">>, 300 >>, << <<"1", "02", "03">>, 62 >>, << <<"12", "abc">>, 720 >>,
      << <<"x", "y">>, 0 >> }

\* C18: the call for chunk i is given startTimeOffset = i * CHUNK_DURATION
\* and every segment it returns has startTimeSeconds = i * CHUNK_DURATION +
\* minutes * 60 + seconds, minutes and seconds being the first two
\* components of the service timestamp, 0 where the component is no number.
C18_AbsoluteStartTimes ==
    [][ /\ \A r \in RunIds :
             (Settled(r) /\ runs'[r].outcome.ok) =>
                LET segs == runs'[r].outcome.segs
                IN  /\ segs # << >>
                    /\ \A k \in DOMAIN segs :
                          \E p \in TimestampSeconds :
                              /\ p[1] = segs[k].timestamp
                              /\ segs[k].startTimeSeconds
                                    = runs[r].i * CHUNK_DURATION + p[2]
        /\ \A p \in TimestampSeconds : \A i \in 0..2 :
             ToSegment(Item("S1", p[1], "said"), i * CHUNK_DURATION).startTimeSeconds
                = i * CHUNK_DURATION + p[2]
      ]_vars

\* C18 witness: chunk 1 returned a segment stamped "abc:07", placed at 307 s
C18_Witness ==
    \E r \in RunIds :
        /\ runs[r].i = 2 /\ runs[r].outcome.ok
        /\ \E k \in DOMAIN runs[r].outcome.segs :
              /\ runs[r].outcome.segs[k].timestamp = <<"abc", "07">>
              /\ runs[r].outcome.segs[k].startTimeSeconds = 307

\* the digit strings among the components, with their values
DigitValue(s) ==
    CASE s = "1" -> 1 [] s = "30" -> 30 [] s = "05" -> 5 [] s = "12" -> 12
      [] s = "02" -> 2 [] s = "03" -> 3 [] OTHER -> 0

Digits == {"1", "30", "05", "12", "02", "03"}

\* C19 as claimed: parseTimeStringToSeconds never throws, returns m*60+s for
\* "M:S" and h*3600+m*60+s for "H:M:S", and 0 for every malformed input: one
\* with a component that is not a number (an empty one included) or with
\* more than three components.
C19_MalformedGivesZero ==
    rt.phase = "output" =>
        LET q == rt.timeStr
            v == rt.res.value
            d(k) == DigitValue(q[k])
        IN  /\ ~rt.res.threw
            /\ q = <<"1", "30">> => v = 90
            /\ q = <<"05", "12">> => v = 312
            /\ q = <<"1", "02", "03">> => v = 3723
            /\ (Len(q) = 2 /\ \A k \in 1..2 : q[k] \in Digits) => v = d(1) * 60 + d(2)
            /\ (Len(q) = 3 /\ \A k \in 1..3 : q[k] \in Digits)
                  => v = d(1) * 3600 + d(2) * 60 + d(3)
            /\ ((\E k \in 1..Len(q) : q[k] \notin Digits) \/ Len(q) > 3) => v = 0

\* C19 amended: parseTimeStringToSeconds never throws, returns m*60+s for
\* "M:S" and h*3600+m*60+s for "H:M:S" where an empty component counts as 0
\* (Number("") is 0), and returns 0 for an input with a component that
\* Number maps to NaN, with more than three components, or that is no string.
C19_ParseTimeString ==
    rt.phase = "output" =>
        LET q == rt.timeStr
            v == rt.res.value
            d(k) == DigitValue(q[k])
            numeric == Digits \cup {""}
        IN  /\ ~rt.res.threw
            /\ q = <<"1", "30">> => v = 90
            /\ q = <<"05", "12">> => v = 312
            /\ q = <<"1", "02", "03">> => v = 3723
            /\ (Len(q) = 2 /\ \A k \in 1..2 : q[k] \in numeric) => v = d(1) * 60 + d(2)
            /\ (Len(q) = 3 /\ \A k \in 1..3 : q[k] \in numeric)
                  => v = d(1) * 3600 + d(2) * 60 + d(3)
            /\ ((\E k \in 1..Len(q) : q[k] \notin numeric) \/ Len(q) > 3 \/ Len(q) = 0)
                  => v = 0

\* C19 witness: "1:02:03" was parsed to 3723
C19_Witness ==
    /\ rt.phase = "output"
    /\ rt.timeStr = <<"1", "02", "03">>
    /\ rt.res = [threw |-> FALSE, value |-> 3723]

\* C20: in transcribeWithRetry a wait follows each failed attempt k (counted
\* from 0) with k < maxRetries and lasts retryDelay * 2^k (1000, 2000, 4000
\* ms with the defaults); calls and waits alternate, beginning and ending
\* with a call, so no wait follows the last attempt.
C20_BackoffWaits ==
    rt.phase = "output" =>
        LET tr == rt.res.trace
            calls == rt.res.calls
            twoTo == <<1, 2, 4, 8>>
        IN  /\ Len(tr) = 2 * calls - 1
            /\ \A j \in 1..Len(tr) :
                  IF j % 2 = 1
                  THEN tr[j].ev = "call"
                  ELSE /\ tr[j] = [ev |-> "wait", ms |-> rt.retryDelay * twoTo[j \div 2]]
                       /\ ~rt.fnResults[j \div 2].ok
                       /\ (j \div 2) - 1 < rt.maxRetries
            /\ Len(rt.res.waits) = calls - 1
            /\ \A k \in 1..(calls - 1) : rt.res.waits[k] = rt.retryDelay * twoTo[k]
            /\ (rt.retryDelay = 1000 /\ rt.maxRetries = 3 /\ calls = 4)
                  => rt.res.waits = <<1000, 2000, 4000>>

\* C20 witness: with the defaults four attempts failed after waits of 1000,
\* 2000 and 4000 ms, and the error was thrown right after the fourth.
C20_Witness ==
    /\ rt.phase = "output"
    /\ rt.maxRetries = DefaultMaxRetries /\ rt.retryDelay = DefaultRetryDelay
    /\ ~rt.res.out.ok
    /\ rt.res.waits = <<1000, 2000, 4000>>
    /\ Len(rt.res.trace) = 7 /\ rt.res.trace[7].ev = "call"

C22_StickyMessage ==
    [][ /\ \A r \in RunIds :
            Settled(r) =>
                LET res == runs'[r].outcome
                    nonRetryable ==
                        ~res.ok /\ res.err.has \cap {"API key", "authentication"} # {}
                IN  /\ nonRetryable =>
                           errorMsg' = UserMsg("API key invalid or expired", "")
                    /\ ~nonRetryable => errorMsg' = errorMsg
        /\ (RenderStep \/ (abort' /\ ~abort)) => errorMsg' = errorMsg
        /\ nrun' # nrun => errorMsg' = NoMsg]_vars

\* C22 witness: a run whose chunk 0 failed with a non-retryable error and
\* whose chunk 1 succeeded has completed, and the message of the failure is
\* still shown.
C22_Witness ==
    \E r \in RunIds :
        /\ runs[r].exit = "completed" /\ nrun = r
        /\ Len(runs[r].acc) > 1
        /\ runs[r].acc[1].speaker = "System"
        /\ runs[r].acc[1].text.userMessage = UserMsg("API key invalid or expired", "")
        /\ runs[r].acc[2].speaker # "System"
        /\ errorMsg = UserMsg("API key invalid or expired", "")

\* C23: every record the pipeline writes to the progress store, and so the
\* record the store holds, has 0 <= processedChunks <= totalChunks.
C23_ProcessedWithinTotal ==
    LET InRange(st) ==
            st # << >> =>
                /\ 0 <= st[1].processedChunks
                /\ st[1].processedChunks <= st[1].totalChunks
    IN  /\ InRange(store)
        /\ \A k \in DOMAIN storeLog :
               storeLog[k].op = "save" => InRange(storeLog[k].st)

\* C23 witness: a resumed run has just written the record of its last chunk,
\* with processedChunks = totalChunks, after an earlier run was stopped.
C23_Witness ==
    \E r \in RunIds, k \in DOMAIN storeLog :
        /\ runs[r].shouldResume
        /\ \E q \in RunIds : runs[q].stopAt = -1 /\ runs[q].exit \in {"stopped", "ended"}
        /\ storeLog[k].op = "save" /\ storeLog[k].run = r
        /\ storeLog[k].st[1].processedChunks = storeLog[k].st[1].totalChunks
        /\ storeLog[k].st[1].totalChunks = 2

\* C24: the start of a run sets the status to PREPARING; COMPLETED is entered
\* only from PROCESSING; and once the status is COMPLETED, STOPPED or ERROR
\* it does not change to another status until a run is started (or a file is
\* selected, which resets the status to IDLE).
C24_StatusPath ==
    [][ /\ nrun' # nrun => status' = "PREPARING"
        /\ (nrun' = nrun /\ file' = file) =>
               /\ (status' = "COMPLETED" /\ status # "COMPLETED") =>
                      status = "PROCESSING"
               /\ status \in {"COMPLETED", "STOPPED", "ERROR"} =>
                      status' = status]_vars

\* C25: when every await settles, every run that was started ends (its
\* function returns, or the page is reloaded), and the status never stays
\* PREPARING or PROCESSING forever.
C25_EveryRunEnds ==
    /\ \A r \in RunIds :
           (runs[r].pc \in {"decoding", "calling"}) ~> (runs[r].pc = "done")
    /\ (status \in {"PREPARING", "PROCESSING"})
           ~> (status \notin {"PREPARING", "PROCESSING"})

\* C25 witness: a run whose chunk 0 failed after its retries and that was
\* then asked to stop has ended, with the status STOPPED.
C25_Witness ==
    \E r \in RunIds :
        /\ runs[r].pc = "done" /\ runs[r].exit = "stopped"
        /\ runs[r].acc # << >> /\ runs[r].acc[1].speaker = "System"
        /\ status = "STOPPED"

\* what chunk i may contribute: the segments of a successful attempt, with
\* the chunk's offset, or the one placeholder of the chunk
Contributions(i) ==
    { LET out == transcribeChunk(o, i * CHUNK_DURATION, 3, DefaultRetryDelay).out
      IN  IF out.ok THEN out.segs
          ELSE <<Placeholder(i, i * CHUNK_DURATION,
                             parseGeminiError(out.err).userMessage)>> : o \in Oracles }

\* t is one contribution of each of the chunks i..n-1, in that order
RECURSIVE ConcatOfChunks(_, _, _)
ConcatOfChunks(t, i, n) ==
    IF i >= n THEN t = << >>
    ELSE \E c \in Contributions(i) :
            /\ Len(c) <= Len(t)
            /\ SubSeq(t, 1, Len(c)) = c
            /\ ConcatOfChunks(SubSeq(t, Len(c) + 1, Len(t)), i + 1, n)

IsPrefix(p, q) == Len(p) <= Len(q) /\ SubSeq(q, 1, Len(p)) = p

C27_LoadRemovesOnlyExpiredMatch ==
    rt.phase = "output" =>
        LET expiredMatch ==
                /\ rt.st # << >>
                /\ rt.st[1].fileName = rt.fileName
                /\ rt.st[1].fileSize = rt.fileSize
                /\ rt.t - rt.st[1].timestamp > MAX_AGE_MS
        IN  /\ expiredMatch => rt.res.store = << >>
            /\ ~expiredMatch => rt.res.store = rt.st

\* C27 witness: a load for another file left an expired record in the store.
C27_Witness ==
    /\ rt.phase = "output"
    /\ rt.st # << >>
    /\ rt.st[1].fileName # rt.fileName
    /\ rt.t - rt.st[1].timestamp > MAX_AGE_MS
    /\ rt.res.store = rt.st /\ rt.res.result = << >>

\* C28 as stated: when the call for chunk i of a run fails, the persisted
\* processedChunks is not advanced past i: the store is left as it was or
\* emptied, or holds a record that counts at most i chunks as processed.
C28_FailureLeavesStore ==
    [][\A r \in RunIds :
          (Settled(r) /\ ~runs'[r].outcome.ok) =>
              \/ store' = store
              \/ store' = << >>
              \/ store'[1].processedChunks <= runs[r].i]_vars

\* C28, amended: when the call for chunk i of a run fails, the placeholder is
\* queued for the in-memory transcript by an updater that does not save; the
\* store is written in that step only by what the loop does next: nothing
\* when it goes on to chunk i + 1, the record of a stop request (the
\* transcript of the run's closure, processedChunks = i + 1) when the stop
\* signal is set, or the removal of the record when chunk i was the last.
C28_FailureHandlingWritesNothing ==
    [][\A r \in RunIds :
          (Settled(r) /\ ~runs'[r].outcome.ok) =>
              LET i == runs[r].i
                  run == runs'[r]
              IN  /\ pending' # << >>
                  /\ Last(pending').segs =
                        <<Placeholder(i, i * CHUNK_DURATION,
                                      parseGeminiError(run.outcome.err).userMessage)>>
                  /\ ~Last(pending').save
                  /\ transcripts' = transcripts
                  /\ CASE run.pc = "calling" ->
                              storeLog' = << >> /\ store' = store
                        [] run.exit = "stopped" ->
                              /\ store' = saveProgress(run.file.name, run.file.size,
                                                       run.closureT, i + 1,
                                                       run.totalChunks, now)
                              /\ storeLog' = <<Saved("stop", r, store')>>
                        [] run.exit = "completed" ->
                              /\ store' = << >>
                              /\ storeLog' = <<Cleared("complete", r)>>
                        [] OTHER ->
                              /\ run.exit = "ended"
                              /\ storeLog' = << >> /\ store' = store]_vars

\* C28 witness: chunk 0 of a two-chunk file has just failed while a stop was
\* requested; the placeholder waits in the update queue and the store holds
\* the record of the stop, with processedChunks = 1 and no placeholder.
C28_Witness ==
    \E r \in RunIds :
        /\ runs[r].exit = "stopped" /\ runs[r].i = 1
        /\ runs[r].subs = <<0>> /\ ~runs[r].outcome.ok
        /\ pending # << >> /\ Last(pending).segs[1].speaker = "System"
        /\ storeLog = <<Saved("stop", r, store)>>
        /\ store[1].processedChunks = 1
        /\ store[1].transcripts = << >>

\* C29: every sample audioBufferToWav writes is the input sample clamped to
\* [-1, 1] and scaled by 32768 if it is negative and by 32767 if it is not,
\* truncated toward zero, and lies in -32768..32767.  (Samples are in halves.)
C29_ScaledBySign ==
    rt.phase = "output" =>
        LET buffer == rt.buffer
            ch == buffer.numberOfChannels
            wav == rt.wav[1]
            Scaled(h) ==
                LET sample == IF h < -2 THEN -2 ELSE IF h > 2 THEN 2 ELSE h
                IN  IF sample < 0 THEN TruncDiv(sample * 32768, 2)
                    ELSE TruncDiv(sample * 32767, 2)
        IN  \A s \in 1..Len(wav.samples) :
               LET i == (s - 1) % ch
                   pos == HeaderPos + ((s - 1) \div ch)
               IN  /\ wav.samples[s] \in -32768..32767
                   /\ pos < buffer.length =>
                          wav.samples[s] = Scaled(buffer.channels[i + 1][pos + 1])

====
